---- MODULE Spec2Model ----
(***************************************************************************)
(* Model of Game/Managers/SoloCombat.py: the power score calculator, the   *)
(* monster selector, the battle resolver, the raid loop, the death handler *)
(* and the raid command.                                                   *)
(*                                                                         *)
(* Numbers.  Power scores are kept exactly, in units of 1/2000: the stat   *)
(* weights 1.5, 1.2, 1.3 become 15, 12, 13 (tenths), the rarity            *)
(* multipliers 1.0 .. 3.0 become 10 .. 30 (tenths) and the mindset factor  *)
(* 1 + m/20 becomes 20 + m (twentieths).  Hit points are kept in tenths,   *)
(* so that max_hp * 0.1 is the integer max_hp.                             *)
(***************************************************************************)
EXTENDS Integers, Sequences, FiniteSets, TLC

VARIABLES pc, player, player0, tower_level, catalog, query_fails,
          monsters, idx, raid_results, player_power, monster_power,
          error, saved, summary,
          score_entity, score_mindset, final_score

vars == <<pc, player, player0, tower_level, catalog, query_fails,
          monsters, idx, raid_results, player_power, monster_power,
          error, saved, summary, score_entity, score_mindset, final_score>>

\* the argument, the draw and the result of a call of calculate_power_score
\* on its own
calc == <<score_entity, score_mindset, final_score>>

-----------------------------------------------------------------------------
(* Bounds of the model *)

\* templates of the largest tier of the raid catalog
MaxPerTier == 4
\* templates of the tier of the selector catalog (more than the cap of 7)
BigTierSize == 8
\* level, damage and defense of a scored monster are in 0..MaxStat
MaxStat == 3
\* the mindset draws are the multiples of MindsetStep in 0..10
MindsetStep == 5

-----------------------------------------------------------------------------
(* Python values *)

None == <<>>

\* dict.get(key, default)
Get(d, key, default) == IF key \in DOMAIN d THEN d[key] ELSE default

\* sum of f[x] over the domain of f
RECURSIVE SumOver(_, _)
SumOver(f, S) ==
    IF S = {} THEN 0
    ELSE LET x == CHOOSE y \in S : TRUE IN f[x] + SumOver(f, S \ {x})

\* the ids of a sequence of records with a monster_id
Ids(seq) == [i \in 1..Len(seq) |-> seq[i].monster_id]

Range(seq) == {seq[i] : i \in 1..Len(seq)}

-----------------------------------------------------------------------------
(* CombatSystem.calculate_power_score *)

StatKeys == {"strength", "agility", "vitality"}

\* random.uniform(0, 10), drawn from a grid
Mindsets == {m \in 0..10 : m % MindsetStep = 0}

\* rarity_multipliers, in tenths
rarity_multipliers == [E |-> 10, D |-> 13, C |-> 16, B |-> 20, A |-> 25, S |-> 30]

\* equipment_bonus: the power of every non-empty slot, a missing power is 0
equipment_bonus(entity) ==
    SumOver([slot \in DOMAIN entity.equipment |->
                IF entity.equipment[slot] # None
                THEN Get(entity.equipment[slot], "power", 0) ELSE 0],
            DOMAIN entity.equipment)

\* entity.stats[...] raises KeyError on a missing key
RaisesKeyError(entity, is_player) ==
    is_player /\ ~(StatKeys \subseteq DOMAIN entity.stats)

\* mutant: an unrecognized rarity gets the multiplier 0
calculate_power_score_NoDefault(entity, is_player, mindset) ==
    LET base_score ==
            IF is_player
            THEN (entity.stats["strength"] * 15
                  + entity.stats["agility"] * 12
                  + entity.stats["vitality"] * 10
                  + entity.level * 50
                  + equipment_bonus(entity) * 10) * 10
            ELSE (entity.level * 60 + entity.damage * 13 + entity.defense * 10)
                 * Get(rarity_multipliers, entity.rarity, 0)
    IN base_score * (20 + mindset)

\* the score in units of 1/2000, for the mindset draw m
calculate_power_score(entity, is_player, mindset) ==
    LET base_score ==
            IF is_player
            THEN (entity.stats["strength"] * 15
                  + entity.stats["agility"] * 12
                  + entity.stats["vitality"] * 10
                  + entity.level * 50
                  + equipment_bonus(entity) * 10) * 10
            ELSE (entity.level * 60 + entity.damage * 13 + entity.defense * 10)
                 * Get(rarity_multipliers, entity.rarity, 10)
    IN base_score * (20 + mindset)

-----------------------------------------------------------------------------
(* RaidManager.generate_monsters *)

rarity_ranges ==
    << [rarity |-> "E", min_level |-> 1,  max_level |-> 10],
       [rarity |-> "D", min_level |-> 11, max_level |-> 20],
       [rarity |-> "C", min_level |-> 21, max_level |-> 30],
       [rarity |-> "B", min_level |-> 31, max_level |-> 40],
       [rarity |-> "A", min_level |-> 41, max_level |-> 50],
       [rarity |-> "S", min_level |-> 51, max_level |-> 60] >>

\* the loop over rarity_ranges from entry i on; "E" when no entry matches
RECURSIVE rarity_from(_, _)
rarity_from(i, level) ==
    IF i > Len(rarity_ranges) THEN "E"
    ELSE IF level <= rarity_ranges[i].max_level THEN rarity_ranges[i].rarity
    ELSE rarity_from(i + 1, level)

current_rarity(level) == rarity_from(1, level)

\* monsters_collection.find({"monster_id": {"$regex": "^" + rarity}});
\* a monster_id is the pair of its first letter and the rest
potential_monsters(cat, rarity) == {t \in cat : t.monster_id[1] = rarity}

Min(a, b) == IF a <= b THEN a ELSE b

\* mutant: random.randint(1, ...)
num_monsters_FromOne(candidates) == 1..Min(Cardinality(candidates), 7)

\* mutant: random.randint(0, ...)
num_monsters_FromZero(candidates) == 0..Min(Cardinality(candidates), 7)

\* random.randint(3, min(len(potential_monsters), 7)): empty when the range is
\* empty, and randint raises ValueError
num_monsters(candidates) == 3..Min(Cardinality(candidates), 7)

\* random.sample(population, k): the sequences of k distinct elements
sample(population, k) ==
    {s \in [1..k -> population] : \A i, j \in 1..k : i # j => s[i] # s[j]}

\* Monster(...) built from a template, with the defaults of the optional fields
Monster(monster_data, rarity) ==
    [monster_id        |-> monster_data["monster_id"],
     name              |-> monster_data["name"],
     level             |-> monster_data["level"],
     rarity            |-> rarity,
     monster_type      |-> Get(monster_data, "monster_type", "generic"),
     hp                |-> Get(monster_data, "base_hp", 50),
     damage            |-> Get(monster_data, "base_damage", 5),
     defense           |-> Get(monster_data, "base_defense", 3),
     experience_reward |-> Get(monster_data, "experience_reward", 15),
     gold_reward       |-> Get(monster_data, "gold_reward", 10),
     loot_table        |-> Get(monster_data, "loot_table", <<>>)]

-----------------------------------------------------------------------------
(* RaidManager.process_battle *)

\* mutant: a tie is a win (>= for >)
process_battle_TieWins(p, monster, player_mindset, monster_mindset) ==
    LET pp == calculate_power_score(p, TRUE, player_mindset)
        mp == calculate_power_score(monster, FALSE, monster_mindset)
        player_wins == pp >= mp
    IN  [player_won   |-> player_wins,
         damage_taken |-> IF ~player_wins THEN monster.damage ELSE 0,
         rewards      |-> [gold       |-> IF player_wins THEN monster.gold_reward ELSE 0,
                           experience |-> IF player_wins THEN monster.experience_reward ELSE 0],
         monster_id   |-> monster.monster_id]

\* the battle result for the two mindset draws
process_battle(p, monster, player_mindset, monster_mindset) ==
    LET pp == calculate_power_score(p, TRUE, player_mindset)
        mp == calculate_power_score(monster, FALSE, monster_mindset)
        player_wins == pp > mp
    IN  [player_won   |-> player_wins,
         damage_taken |-> IF ~player_wins THEN monster.damage ELSE 0,
         rewards      |-> [gold       |-> IF player_wins THEN monster.gold_reward ELSE 0,
                           experience |-> IF player_wins THEN monster.experience_reward ELSE 0],
         monster_id   |-> monster.monster_id]

-----------------------------------------------------------------------------
(* handle_player_death *)

\* player.equipment.items() in the order of the dict
EquipmentSlots == <<"weapon", "armor">>

\* the slots whose item is truthy
Occupied(p) == {slot \in DOMAIN p.equipment : p.equipment[slot] # None}

\* mutant: the loss is rounded up
GoldLoss_RoundedUp(gold) == (gold * 2 + 9) \div 10

\* int(x * 0.2) for an integer x >= 0
GoldLoss(gold) == (gold * 2) \div 10

\* the records appended for the slots of drops, in the order of the dict
RECURSIVE DroppedFrom(_, _, _)
DroppedFrom(i, p, drops) ==
    IF i > Len(EquipmentSlots) THEN <<>>
    ELSE (IF EquipmentSlots[i] \in drops
          THEN <<[slot |-> EquipmentSlots[i], item |-> p.equipment[EquipmentSlots[i]]]>>
          ELSE <<>>) \o DroppedFrom(i + 1, p, drops)

\* mutant: a dropped item is recorded but its slot is not cleared
handle_player_death_KeepsItem(p, drops) ==
    [player |-> [p EXCEPT !.gold = p.gold - GoldLoss(p.gold),
                          !.current_hp = p.max_hp,
                          !.current_party_id = None],
     dropped_items |-> DroppedFrom(1, p, drops)]

\* drops: the occupied slots whose random.random() draw was below 0.3;
\* current_hp is in tenths, so max_hp * 0.1 is max_hp tenths
handle_player_death(p, drops) ==
    [player |-> [p EXCEPT !.equipment = [slot \in DOMAIN p.equipment |->
                                            IF slot \in drops THEN None
                                            ELSE p.equipment[slot]],
                          !.gold = p.gold - GoldLoss(p.gold),
                          !.current_hp = p.max_hp,
                          !.current_party_id = None],
     dropped_items |-> DroppedFrom(1, p, drops)]

-----------------------------------------------------------------------------
(* create_raid_summary *)

create_raid_summary(results) ==
    [health_lost  |-> results.damage_taken,
     defeated     |-> results.monsters_defeated,
     defeated_by  |-> results.monsters_defeated_by,
     gold         |-> results.total_rewards.gold,
     experience   |-> results.total_rewards.experience,
     verdict      |-> IF results.raid_complete THEN "Raid Complete"
                      ELSE IF results.player_survived THEN "Raid Abandoned"
                      ELSE "Raid Failed"]

-----------------------------------------------------------------------------
(* The inputs: catalogs, tower levels, players *)

\* the n-th template of a tier; the first one leaves every optional field out
Template(letter, n) ==
    IF n = 1 THEN [monster_id |-> <<letter, 1>>, name |-> "slime", level |-> 1]
    ELSE IF n = 2 THEN [monster_id |-> <<letter, 2>>, name |-> "wolf", level |-> 2,
                        base_damage |-> 5, base_defense |-> 5,
                        gold_reward |-> 20, experience_reward |-> 30]
    ELSE IF n = 3 THEN [monster_id |-> <<letter, 3>>, name |-> "rat", level |-> 1,
                        base_damage |-> 2, base_defense |-> 0,
                        gold_reward |-> 5, experience_reward |-> 5]
    ELSE [monster_id |-> <<letter, n>>, name |-> "ogre", level |-> n + 1,
          base_damage |-> 10, base_defense |-> 10,
          gold_reward |-> 10 * n, experience_reward |-> 10 * n]

Tier(letter, count) == {Template(letter, n) : n \in 1..count}

\* tier E is full, tier D has too few templates, tier C has none
RaidCatalog == Tier("E", MaxPerTier) \cup Tier("D", 2) \cup Tier("B", 3)

RaidLevels == {10, 11, 25, 40}

\* tier C has more templates than the cap of 7, tier D too few, tier S none
SelectorCatalog ==
    Tier("E", 3) \cup Tier("D", 2) \cup Tier("C", BigTierSize)
    \cup Tier("B", 4) \cup Tier("A", 3)

SelectorLevels == {0, 10, 11, 25, 40, 50, 60, 61, 100}

Sword == [name |-> "sword", power |-> 30]
Cloak == [name |-> "cloak"]

Equipments ==
    { [weapon |-> None,  armor |-> None],
      [weapon |-> Sword, armor |-> None],
      [weapon |-> Sword, armor |-> Cloak] }

StatMaps ==
    { [strength |-> 5, agility |-> 5, vitality |-> 5],
      [strength |-> 5, vitality |-> 5] }

Party == <<"party", 1>>

\* current_hp in tenths of a hit point
Players ==
    [discord_id       : {1},
     level            : {1},
     stats            : StatMaps,
     equipment        : Equipments,
     current_hp       : {-20, 0, 40, 300},
     max_hp           : {55},
     gold             : {0, 7, 100},
     experience       : {0},
     current_party_id : {None, Party}]

NoResults == <<>>

Init ==
    /\ pc = "start"
    /\ player \in Players
    /\ player0 = player
    /\ tower_level \in RaidLevels
    /\ catalog = RaidCatalog
    /\ query_fails \in BOOLEAN
    /\ monsters = <<>>
    /\ idx = 0
    /\ raid_results = NoResults
    /\ player_power = 0
    /\ monster_power = 0
    /\ error = ""
    /\ saved = None
    /\ summary = None
    /\ score_entity = None
    /\ score_mindset = 0
    /\ final_score = 0

-----------------------------------------------------------------------------
(* process_raid *)

\* the catalog query raises: generate_monsters and process_raid raise with it
GenerateQueryFails ==
    /\ pc = "start"
    /\ query_fails
    /\ pc' = "raised"
    /\ error' = "DataUnavailable"
    /\ UNCHANGED <<player, player0, tower_level, catalog, query_fails, monsters,
                   idx, raid_results, player_power, monster_power, saved, summary>>
    /\ UNCHANGED calc

\* fewer than 3 candidates: random.randint(3, n) raises ValueError
GenerateRandintFails ==
    /\ pc = "start"
    /\ ~query_fails
    /\ num_monsters(potential_monsters(catalog, current_rarity(tower_level))) = {}
    /\ pc' = "raised"
    /\ error' = "ValueError"
    /\ UNCHANGED <<player, player0, tower_level, catalog, query_fails, monsters,
                   idx, raid_results, player_power, monster_power, saved, summary>>
    /\ UNCHANGED calc

\* generate_monsters returns a list and the accumulator is initialised
ProcessRaidBegin ==
    /\ pc = "start"
    /\ ~query_fails
    /\ LET rarity == current_rarity(tower_level)
           candidates == potential_monsters(catalog, rarity)
       IN  \E k \in num_monsters(candidates) :
              \E selected_monster_data \in sample(candidates, k) :
                 monsters' = [i \in 1..k |-> Monster(selected_monster_data[i], rarity)]
    /\ raid_results' = [monsters_defeated    |-> <<>>,
                        monsters_defeated_by |-> <<>>,
                        total_rewards        |-> [gold |-> 0, experience |-> 0],
                        battles              |-> <<>>,
                        raid_complete        |-> FALSE,
                        player_survived      |-> TRUE,
                        damage_taken         |-> 0]
    /\ idx' = 1
    /\ pc' = IF monsters' = <<>> THEN "after_loop" ELSE "loop"
    /\ UNCHANGED <<player, player0, tower_level, catalog, query_fails,
                   player_power, monster_power, error, saved, summary>>
    /\ UNCHANGED calc

\* if player.current_hp <= 0: player_survived = False; break
RaidHPCheck ==
    /\ pc = "loop"
    /\ player.current_hp <= 0
    /\ raid_results' = [raid_results EXCEPT !.player_survived = FALSE]
    /\ pc' = "after_loop"
    /\ UNCHANGED <<player, player0, tower_level, catalog, query_fails, monsters,
                   idx, player_power, monster_power, error, saved, summary>>
    /\ UNCHANGED calc

\* process_battle raises KeyError out of calculate_power_score(player)
RaidBattleRaises ==
    /\ pc = "loop"
    /\ player.current_hp > 0
    /\ RaisesKeyError(player, TRUE)
    /\ pc' = "raised"
    /\ error' = "KeyError"
    /\ UNCHANGED <<player, player0, tower_level, catalog, query_fails, monsters,
                   idx, raid_results, player_power, monster_power, saved, summary>>
    /\ UNCHANGED calc

\* mutant: the loop stops one monster early
RaidBattleWon_StopsEarly ==
    /\ pc = "loop"
    /\ player.current_hp > 0
    /\ ~RaisesKeyError(player, TRUE)
    /\ \E pm \in Mindsets, mm \in Mindsets :
          LET monster == monsters[idx]
              battle_result == process_battle(player, monster, pm, mm)
          IN  /\ battle_result.player_won
              /\ player_power' = calculate_power_score(player, TRUE, pm)
              /\ monster_power' = calculate_power_score(monster, FALSE, mm)
              /\ raid_results' =
                    [raid_results EXCEPT
                        !.battles = Append(@, battle_result),
                        !.monsters_defeated = Append(@, monster.monster_id),
                        !.total_rewards =
                            [gold       |-> @.gold + battle_result.rewards.gold,
                             experience |-> @.experience + battle_result.rewards.experience]]
    /\ idx' = idx + 1
    /\ pc' = IF idx + 1 >= Len(monsters) THEN "after_loop" ELSE "loop"
    /\ UNCHANGED <<player, player0, tower_level, catalog, query_fails, monsters,
                   error, saved, summary>>
    /\ UNCHANGED calc

\* mutant: the reward of a won battle is paid to the player inside the raid
RaidBattleWon_PaysPlayer ==
    /\ pc = "loop"
    /\ player.current_hp > 0
    /\ ~RaisesKeyError(player, TRUE)
    /\ \E pm \in Mindsets, mm \in Mindsets :
          LET monster == monsters[idx]
              battle_result == process_battle(player, monster, pm, mm)
          IN  /\ battle_result.player_won
              /\ player_power' = calculate_power_score(player, TRUE, pm)
              /\ monster_power' = calculate_power_score(monster, FALSE, mm)
              /\ raid_results' =
                    [raid_results EXCEPT
                        !.battles = Append(@, battle_result),
                        !.monsters_defeated = Append(@, monster.monster_id),
                        !.total_rewards =
                            [gold       |-> @.gold + battle_result.rewards.gold,
                             experience |-> @.experience + battle_result.rewards.experience]]
    /\ idx' = idx + 1
    /\ pc' = IF idx = Len(monsters) THEN "after_loop" ELSE "loop"
    /\ player' = [player EXCEPT !.gold = @ + monsters[idx].gold_reward]
    /\ UNCHANGED <<player0, tower_level, catalog, query_fails, monsters,
                   error, saved, summary>>
    /\ UNCHANGED calc

\* mutant: the loop skips the monster after a won battle
RaidBattleWon_SkipsNext ==
    /\ pc = "loop"
    /\ player.current_hp > 0
    /\ ~RaisesKeyError(player, TRUE)
    /\ \E pm \in Mindsets, mm \in Mindsets :
          LET monster == monsters[idx]
              battle_result == process_battle(player, monster, pm, mm)
          IN  /\ battle_result.player_won
              /\ player_power' = calculate_power_score(player, TRUE, pm)
              /\ monster_power' = calculate_power_score(monster, FALSE, mm)
              /\ raid_results' =
                    [raid_results EXCEPT
                        !.battles = Append(@, battle_result),
                        !.monsters_defeated = Append(@, monster.monster_id),
                        !.total_rewards =
                            [gold       |-> @.gold + battle_result.rewards.gold,
                             experience |-> @.experience + battle_result.rewards.experience]]
    /\ idx' = idx + 2
    /\ pc' = IF idx + 2 > Len(monsters) THEN "after_loop" ELSE "loop"
    /\ UNCHANGED <<player, player0, tower_level, catalog, query_fails, monsters,
                   error, saved, summary>>
    /\ UNCHANGED calc

\* mutant: gold and experience of a won battle are swapped
RaidBattleWon_SwapsRewards ==
    /\ pc = "loop"
    /\ player.current_hp > 0
    /\ ~RaisesKeyError(player, TRUE)
    /\ \E pm \in Mindsets, mm \in Mindsets :
          LET monster == monsters[idx]
              battle_result == process_battle(player, monster, pm, mm)
          IN  /\ battle_result.player_won
              /\ player_power' = calculate_power_score(player, TRUE, pm)
              /\ monster_power' = calculate_power_score(monster, FALSE, mm)
              /\ raid_results' =
                    [raid_results EXCEPT
                        !.battles = Append(@, battle_result),
                        !.monsters_defeated = Append(@, monster.monster_id),
                        !.total_rewards =
                            [gold       |-> @.gold + battle_result.rewards.experience,
                             experience |-> @.experience + battle_result.rewards.gold]]
    /\ idx' = idx + 1
    /\ pc' = IF idx = Len(monsters) THEN "after_loop" ELSE "loop"
    /\ UNCHANGED <<player, player0, tower_level, catalog, query_fails, monsters,
                   error, saved, summary>>
    /\ UNCHANGED calc

\* one iteration of the loop with a won battle
RaidBattleWon ==
    /\ pc = "loop"
    /\ player.current_hp > 0
    /\ ~RaisesKeyError(player, TRUE)
    /\ \E pm \in Mindsets, mm \in Mindsets :
          LET monster == monsters[idx]
              battle_result == process_battle(player, monster, pm, mm)
          IN  /\ battle_result.player_won
              /\ player_power' = calculate_power_score(player, TRUE, pm)
              /\ monster_power' = calculate_power_score(monster, FALSE, mm)
              /\ raid_results' =
                    [raid_results EXCEPT
                        !.battles = Append(@, battle_result),
                        !.monsters_defeated = Append(@, monster.monster_id),
                        !.total_rewards =
                            [gold       |-> @.gold + battle_result.rewards.gold,
                             experience |-> @.experience + battle_result.rewards.experience]]
    /\ idx' = idx + 1
    /\ pc' = IF idx = Len(monsters) THEN "after_loop" ELSE "loop"
    /\ UNCHANGED <<player, player0, tower_level, catalog, query_fails, monsters,
                   error, saved, summary>>
    /\ UNCHANGED calc

\* mutant: a lost battle marks the player as not having survived
RaidBattleLost_NotSurvived ==
    /\ pc = "loop"
    /\ player.current_hp > 0
    /\ ~RaisesKeyError(player, TRUE)
    /\ \E pm \in Mindsets, mm \in Mindsets :
          LET monster == monsters[idx]
              battle_result == process_battle(player, monster, pm, mm)
          IN  /\ ~battle_result.player_won
              /\ player_power' = calculate_power_score(player, TRUE, pm)
              /\ monster_power' = calculate_power_score(monster, FALSE, mm)
              /\ raid_results' =
                    [raid_results EXCEPT
                        !.battles = Append(@, battle_result),
                        !.monsters_defeated_by = Append(@, monster.monster_id),
                        !.player_survived = FALSE,
                        !.damage_taken = @ + battle_result.damage_taken]
              /\ player' = [player EXCEPT
                              !.current_hp = @ - 10 * battle_result.damage_taken]
    /\ pc' = "after_loop"
    /\ UNCHANGED <<player0, tower_level, catalog, query_fails, monsters, idx,
                   error, saved, summary>>
    /\ UNCHANGED calc

\* mutant: the break after a lost battle is missing
RaidBattleLost_NoBreak ==
    /\ pc = "loop"
    /\ player.current_hp > 0
    /\ ~RaisesKeyError(player, TRUE)
    /\ \E pm \in Mindsets, mm \in Mindsets :
          LET monster == monsters[idx]
              battle_result == process_battle(player, monster, pm, mm)
          IN  /\ ~battle_result.player_won
              /\ player_power' = calculate_power_score(player, TRUE, pm)
              /\ monster_power' = calculate_power_score(monster, FALSE, mm)
              /\ raid_results' =
                    [raid_results EXCEPT
                        !.battles = Append(@, battle_result),
                        !.monsters_defeated_by = Append(@, monster.monster_id),
                        !.damage_taken = @ + battle_result.damage_taken]
              /\ player' = [player EXCEPT
                              !.current_hp = @ - 10 * battle_result.damage_taken]
    /\ idx' = idx + 1
    /\ pc' = IF idx = Len(monsters) THEN "after_loop" ELSE "loop"
    /\ UNCHANGED <<player0, tower_level, catalog, query_fails, monsters,
                   error, saved, summary>>
    /\ UNCHANGED calc

\* mutant: the HP check before the battle is missing
RaidBattleLost_NoHPGuard ==
    /\ pc = "loop"
    /\ ~RaisesKeyError(player, TRUE)
    /\ \E pm \in Mindsets, mm \in Mindsets :
          LET monster == monsters[idx]
              battle_result == process_battle(player, monster, pm, mm)
          IN  /\ ~battle_result.player_won
              /\ player_power' = calculate_power_score(player, TRUE, pm)
              /\ monster_power' = calculate_power_score(monster, FALSE, mm)
              /\ raid_results' =
                    [raid_results EXCEPT
                        !.battles = Append(@, battle_result),
                        !.monsters_defeated_by = Append(@, monster.monster_id),
                        !.damage_taken = @ + battle_result.damage_taken]
              /\ player' = [player EXCEPT
                              !.current_hp = @ - 10 * battle_result.damage_taken]
    /\ pc' = "after_loop"
    /\ UNCHANGED <<player0, tower_level, catalog, query_fails, monsters, idx,
                   error, saved, summary>>
    /\ UNCHANGED calc

\* mutant: a loss that brings the HP to 0 or below clears player_survived
RaidBattleLost_DeathCheck ==
    /\ pc = "loop"
    /\ player.current_hp > 0
    /\ ~RaisesKeyError(player, TRUE)
    /\ \E pm \in Mindsets, mm \in Mindsets :
          LET monster == monsters[idx]
              battle_result == process_battle(player, monster, pm, mm)
          IN  /\ ~battle_result.player_won
              /\ player_power' = calculate_power_score(player, TRUE, pm)
              /\ monster_power' = calculate_power_score(monster, FALSE, mm)
              /\ raid_results' =
                    [raid_results EXCEPT
                        !.battles = Append(@, battle_result),
                        !.monsters_defeated_by = Append(@, monster.monster_id),
                        !.damage_taken = @ + battle_result.damage_taken,
                        !.player_survived =
                            (player.current_hp - 10 * battle_result.damage_taken > 0)]
              /\ player' = [player EXCEPT
                              !.current_hp = @ - 10 * battle_result.damage_taken]
    /\ pc' = "after_loop"
    /\ UNCHANGED <<player0, tower_level, catalog, query_fails, monsters, idx,
                   error, saved, summary>>
    /\ UNCHANGED calc

\* one iteration of the loop with a lost battle: the loop breaks
RaidBattleLost ==
    /\ pc = "loop"
    /\ player.current_hp > 0
    /\ ~RaisesKeyError(player, TRUE)
    /\ \E pm \in Mindsets, mm \in Mindsets :
          LET monster == monsters[idx]
              battle_result == process_battle(player, monster, pm, mm)
          IN  /\ ~battle_result.player_won
              /\ player_power' = calculate_power_score(player, TRUE, pm)
              /\ monster_power' = calculate_power_score(monster, FALSE, mm)
              /\ raid_results' =
                    [raid_results EXCEPT
                        !.battles = Append(@, battle_result),
                        !.monsters_defeated_by = Append(@, monster.monster_id),
                        !.damage_taken = @ + battle_result.damage_taken]
              /\ player' = [player EXCEPT
                              !.current_hp = @ - 10 * battle_result.damage_taken]
    /\ pc' = "after_loop"
    /\ UNCHANGED <<player0, tower_level, catalog, query_fails, monsters, idx,
                   error, saved, summary>>
    /\ UNCHANGED calc

\* mutant: raid_complete counts the battles fought
ProcessRaidReturn_CountsBattles ==
    /\ pc = "after_loop"
    /\ raid_results' = [raid_results EXCEPT
                           !.raid_complete =
                               (Len(raid_results.battles) = Len(monsters))]
    /\ player_power' = 0
    /\ monster_power' = 0
    /\ pc' = "returned"
    /\ UNCHANGED <<player, player0, tower_level, catalog, query_fails, monsters,
                   idx, error, saved, summary>>
    /\ UNCHANGED calc

\* raid_complete is computed and the result returned
ProcessRaidReturn ==
    /\ pc = "after_loop"
    /\ raid_results' = [raid_results EXCEPT
                           !.raid_complete =
                               (Len(raid_results.monsters_defeated) = Len(monsters))]
    /\ player_power' = 0
    /\ monster_power' = 0
    /\ pc' = "returned"
    /\ UNCHANGED <<player, player0, tower_level, catalog, query_fails, monsters,
                   idx, error, saved, summary>>
    /\ UNCHANGED calc

-----------------------------------------------------------------------------
(* handle_raid_command, after process_raid has returned *)

ApplyRewards ==
    /\ pc = "returned"
    /\ player' = [player EXCEPT
                     !.gold = @ + raid_results.total_rewards.gold,
                     !.experience = @ + raid_results.total_rewards.experience]
    /\ pc' = "rewarded"
    /\ UNCHANGED <<player0, tower_level, catalog, query_fails, monsters, idx,
                   raid_results, player_power, monster_power, error, saved, summary>>
    /\ UNCHANGED calc

\* mutant: the handler is applied when the HP after the raid is 0 or below
HandleDeath_OnZeroHP ==
    /\ pc = "rewarded"
    /\ player.current_hp <= 0
    /\ \E drops \in SUBSET Occupied(player) :
          LET death == handle_player_death(player, drops)
          IN  /\ player' = death.player
              /\ raid_results' = raid_results @@ [dropped_items |-> death.dropped_items]
    /\ pc' = "death_handled"
    /\ UNCHANGED <<player0, tower_level, catalog, query_fails, monsters, idx,
                   player_power, monster_power, error, saved, summary>>
    /\ UNCHANGED calc

\* if not results["player_survived"]: handle_player_death, dropped_items
HandleDeath ==
    /\ pc = "rewarded"
    /\ ~raid_results.player_survived
    /\ \E drops \in SUBSET Occupied(player) :
          LET death == handle_player_death(player, drops)
          IN  /\ player' = death.player
              /\ raid_results' = raid_results @@ [dropped_items |-> death.dropped_items]
    /\ pc' = "death_handled"
    /\ UNCHANGED <<player0, tower_level, catalog, query_fails, monsters, idx,
                   player_power, monster_power, error, saved, summary>>
    /\ UNCHANGED calc

\* players_collection.update_one(...) and create_raid_summary(results)
UpdatePlayer ==
    /\ \/ pc = "rewarded" /\ raid_results.player_survived
       \/ pc = "death_handled"
    /\ saved' = [current_hp |-> player.current_hp,
                 gold       |-> player.gold,
                 experience |-> player.experience]
    /\ summary' = create_raid_summary(raid_results)
    /\ pc' = "done"
    /\ UNCHANGED <<player, player0, tower_level, catalog, query_fails, monsters,
                   idx, raid_results, player_power, monster_power, error>>
    /\ UNCHANGED calc

Next ==
    \/ GenerateQueryFails
    \/ GenerateRandintFails
    \/ ProcessRaidBegin
    \/ RaidHPCheck
    \/ RaidBattleRaises
    \/ RaidBattleWon
    \/ RaidBattleLost
    \/ ProcessRaidReturn
    \/ ApplyRewards
    \/ HandleDeath
    \/ UpdatePlayer

Spec == Init /\ [][Next]_vars

\* the command is one sequential coroutine: it keeps taking its next step
FairSpec == Spec /\ WF_vars(Next)

-----------------------------------------------------------------------------
(* generate_monsters on its own, over every tier and a tier above the cap *)

InitSelect ==
    /\ pc = "start"
    /\ player = [discord_id |-> 1, level |-> 1,
                 stats |-> [strength |-> 5, agility |-> 5, vitality |-> 5],
                 equipment |-> [weapon |-> None, armor |-> None],
                 current_hp |-> 300, max_hp |-> 55, gold |-> 0,
                 experience |-> 0, current_party_id |-> None]
    /\ player0 = player
    /\ tower_level \in SelectorLevels
    /\ catalog = SelectorCatalog
    /\ query_fails \in BOOLEAN
    /\ monsters = <<>>
    /\ idx = 0
    /\ raid_results = NoResults
    /\ player_power = 0
    /\ monster_power = 0
    /\ error = ""
    /\ saved = None
    /\ summary = None
    /\ score_entity = None
    /\ score_mindset = 0
    /\ final_score = 0

NextSelect ==
    \/ GenerateQueryFails
    \/ GenerateRandintFails
    \/ ProcessRaidBegin

SpecSelect == InitSelect /\ [][NextSelect]_vars

-----------------------------------------------------------------------------
(* calculate_power_score on its own, for a monster *)

\* the six tiers and an unrecognized rarity
ScoreRarities == {"E", "D", "C", "B", "A", "S", "X"}

ScoreMonsters ==
    [level : 0..MaxStat, damage : 0..MaxStat, defense : 0..MaxStat,
     rarity : ScoreRarities]

InitScore ==
    /\ pc = "calc"
    /\ score_entity \in ScoreMonsters
    /\ score_mindset \in Mindsets
    /\ final_score = 0
    /\ player = [discord_id |-> 1, level |-> 1,
                 stats |-> [strength |-> 5, agility |-> 5, vitality |-> 5],
                 equipment |-> [weapon |-> None, armor |-> None],
                 current_hp |-> 300, max_hp |-> 55, gold |-> 0,
                 experience |-> 0, current_party_id |-> None]
    /\ player0 = player
    /\ tower_level = 10
    /\ catalog = {}
    /\ query_fails = FALSE
    /\ monsters = <<>>
    /\ idx = 0
    /\ raid_results = NoResults
    /\ player_power = 0
    /\ monster_power = 0
    /\ error = ""
    /\ saved = None
    /\ summary = None

\* calculate_power_score(entity, False) with the draw score_mindset
ScoreMonster ==
    /\ pc = "calc"
    /\ final_score' = calculate_power_score(score_entity, FALSE, score_mindset)
    /\ pc' = "scored"
    /\ UNCHANGED <<player, player0, tower_level, catalog, query_fails, monsters,
                   idx, raid_results, player_power, monster_power, error, saved,
                   summary, score_entity, score_mindset>>

\* the same call, same draw, for the monster with one stat raised by one
ScoreRaisedMonster ==
    /\ pc = "scored"
    /\ \E stat \in {"level", "damage", "defense"} :
          /\ score_entity[stat] < MaxStat
          /\ score_entity' = [score_entity EXCEPT ![stat] = @ + 1]
    /\ final_score' = calculate_power_score(score_entity', FALSE, score_mindset)
    /\ UNCHANGED <<pc, player, player0, tower_level, catalog, query_fails,
                   monsters, idx, raid_results, player_power, monster_power,
                   error, saved, summary, score_mindset>>

NextScore ==
    \/ ScoreMonster
    \/ ScoreRaisedMonster

SpecScore == InitScore /\ [][NextScore]_vars

-----------------------------------------------------------------------------
(* Properties *)

\* process_raid has returned its result
Returned == pc \in {"returned", "rewarded", "death_handled", "done"}

\* the accumulator of process_raid exists
HasResults == raid_results # NoResults

\* the catalog templates of the tier of tower_level
Candidates == potential_monsters(catalog, current_rarity(tower_level))

AllWon(battles) == \A j \in 1..Len(battles) : battles[j].player_won

\* C1: in every result of process_raid, raid_complete is true iff every
\* selected monster's id appears in monsters_defeated, which is the same as
\* the number of defeated monsters being the number of selected monsters.
C1_RaidCompleteIffAllDefeated ==
    Returned =>
        /\ raid_results.raid_complete
              <=> (Range(Ids(monsters)) \subseteq Range(raid_results.monsters_defeated))
        /\ raid_results.raid_complete
              <=> (Len(raid_results.monsters_defeated) = Len(monsters))

C1_Witness ==
    /\ pc = "returned"
    /\ raid_results.raid_complete
    /\ Len(raid_results.monsters_defeated) >= 3

\* C2, as stated: no result of process_raid has player_survived = true while
\* raid_complete = false.
C2_RetreatUnreachable ==
    Returned => ~(raid_results.player_survived /\ ~raid_results.raid_complete)

\* C2, amended: a result of process_raid has player_survived = true while
\* raid_complete = false exactly when the raid was ended by a lost battle.
C2_SurvivedIncompleteIffLost ==
    Returned =>
        ((raid_results.player_survived /\ ~raid_results.raid_complete)
            <=> Len(raid_results.monsters_defeated_by) = 1)

C2_Witness ==
    /\ pc = "returned"
    /\ raid_results.player_survived
    /\ ~raid_results.raid_complete
    /\ Len(raid_results.monsters_defeated_by) = 1

\* C3: for a player entering with HP > 0, a lost battle is the last battle:
\* when the loss is at the i-th monster (0-based) after i wins, monsters_defeated
\* has length i, monsters_defeated_by length 1, battles length i+1,
\* raid_complete is false and the loop resolves no further monster.
C3_LossEndsRaid ==
    (HasResults /\ player0.current_hp > 0) =>
        \A j \in 1..Len(raid_results.battles) :
            ~raid_results.battles[j].player_won =>
                /\ AllWon(SubSeq(raid_results.battles, 1, j - 1))
                /\ Len(raid_results.monsters_defeated) = j - 1
                /\ Len(raid_results.monsters_defeated_by) = 1
                /\ Len(raid_results.battles) = j
                /\ raid_results.battles[j].monster_id = monsters[j].monster_id
                /\ ~raid_results.raid_complete
                /\ pc # "loop"
                /\ idx = j

\* the forced case [win, win, loss] with a monster left unresolved
C3_Witness ==
    /\ pc = "returned"
    /\ Len(raid_results.battles) = 3
    /\ raid_results.battles[1].player_won
    /\ raid_results.battles[2].player_won
    /\ ~raid_results.battles[3].player_won
    /\ Len(raid_results.monsters_defeated) = 2
    /\ Len(raid_results.monsters_defeated_by) = 1
    /\ Len(monsters) > 3

\* C4: when the player (entering with HP > 0) loses no battle, process_raid
\* returns raid_complete = true, player_survived = true and as many battles as
\* there are selected monsters.
C4_AllWinsComplete ==
    (Returned /\ player0.current_hp > 0 /\ AllWon(raid_results.battles)) =>
        /\ raid_results.raid_complete
        /\ raid_results.player_survived
        /\ Len(raid_results.battles) = Len(monsters)

C4_Witness ==
    /\ pc = "returned"
    /\ Len(monsters) = 4
    /\ Len(raid_results.battles) = 4
    /\ AllWon(raid_results.battles)
    /\ raid_results.raid_complete

\* the tier mapping as the claim states it: the first tier whose upper bound
\* is >= the level, and S above 60
ClaimedTier(level) ==
    IF level <= 10 THEN "E"
    ELSE IF level <= 20 THEN "D"
    ELSE IF level <= 30 THEN "C"
    ELSE IF level <= 40 THEN "B"
    ELSE IF level <= 50 THEN "A"
    ELSE "S"

\* C5: the monsters generate_monsters returns are of the tier of the level:
\* 10 -> E, 11 -> D, 25 -> C, 40 -> B, 50 -> A, 60 -> S and S above 60.
C5_TierMapping ==
    (pc = "loop") =>
        \A i \in 1..Len(monsters) : monsters[i].rarity = ClaimedTier(tower_level)

\* what the claim requires of a returned selection
SelectionOK ==
    /\ Len(monsters) \in 3..Min(7, Cardinality(Candidates))
    /\ \A i \in 1..Len(monsters) :
          /\ monsters[i].rarity = current_rarity(tower_level)
          /\ monsters[i].monster_id[1] = current_rarity(tower_level)
          /\ \E t \in Candidates : t.monster_id = monsters[i].monster_id
    /\ \A i, j \in 1..Len(monsters) :
          i # j => monsters[i].monster_id # monsters[j].monster_id

\* C6, as stated: for every level and catalog, generate_monsters returns k
\* monsters with 3 <= k <= min(7, candidate_count), all of the requested tier,
\* no template twice.
C6_AlwaysReturnsSelection ==
    (pc # "start" /\ ~query_fails) => SelectionOK

\* C6, amended: with at least 3 candidates generate_monsters returns such a
\* selection; with fewer than 3 it raises and returns nothing.
C6_SelectionOrFailure ==
    (pc # "start" /\ ~query_fails) =>
        IF Cardinality(Candidates) >= 3
        THEN error # "ValueError" /\ SelectionOK
        ELSE pc = "raised" /\ error = "ValueError" /\ monsters = <<>>

\* 7 monsters out of more than 7 candidates
C6_Witness ==
    /\ pc = "loop"
    /\ Cardinality(Candidates) > 7
    /\ Len(monsters) = 7

\* C7: when the catalog query fails or returns no template, generate_monsters
\* and process_raid fail, no monster list exists and the player is unchanged.
C7_EmptyCatalogFails ==
    (pc # "start" /\ (query_fails \/ Candidates = {})) =>
        /\ pc = "raised"
        /\ error \in {"DataUnavailable", "ValueError"}
        /\ monsters = <<>>
        /\ raid_results = NoResults
        /\ player = player0
        /\ saved = None

C7_Witness ==
    /\ pc = "raised"
    /\ ~query_fails
    /\ Candidates = {}
    /\ error = "ValueError"

\* C8: the last battle was won iff player_power > monster_power (a tie is a
\* loss); a win carries the monster's rewards and no damage, a loss carries no
\* rewards and the monster's damage; monster_id is the fought monster's id.
C8_BattleResult ==
    (pc \in {"loop", "after_loop"} /\ Len(raid_results.battles) > 0) =>
        LET n == Len(raid_results.battles)
            b == raid_results.battles[n]
            monster == monsters[n]
        IN  /\ b.player_won <=> (player_power > monster_power)
            /\ (player_power = monster_power) => ~b.player_won
            /\ b.player_won =>
                  /\ b.rewards = [gold |-> monster.gold_reward,
                                  experience |-> monster.experience_reward]
                  /\ b.damage_taken = 0
            /\ ~b.player_won =>
                  /\ b.rewards = [gold |-> 0, experience |-> 0]
                  /\ b.damage_taken = monster.damage
            /\ b.monster_id = monster.monster_id

\* a battle with equal power scores, lost
C8_Witness ==
    /\ pc = "after_loop"
    /\ Len(raid_results.battles) > 0
    /\ player_power = monster_power
    /\ ~raid_results.battles[Len(raid_results.battles)].player_won

\* C9: after handle_player_death the gold is gold - floor(gold * 0.2) (100
\* becomes 80) and not negative, current_hp is 0.1 * max_hp (max_hp tenths)
\* and the party membership is none.
C9_DeathPenalty ==
    (pc \in {"death_handled", "done"} /\ ~raid_results.player_survived) =>
        LET gold == player0.gold + raid_results.total_rewards.gold
        IN  /\ player.gold = gold - (gold \div 5)
            /\ player.gold >= 0
            /\ (gold = 100 => player.gold = 80)
            /\ 10 * player.current_hp = 10 * player.max_hp
            /\ player.current_party_id = None

C9_Witness ==
    /\ pc = "death_handled"
    /\ player0.gold = 100
    /\ player.gold = 80
    /\ player0.current_party_id # None

\* C10: a player whose stats lack strength, agility or vitality still gets a
\* power score: the missing stat counts as zero and no error is raised.
C10_MissingStatIsZero ==
    ~(StatKeys \subseteq DOMAIN player.stats) =>
        ~(pc = "raised" /\ error = "KeyError")

\* C11: monsters_defeated_by never has more than one entry, and its entry is
\* the monster of the last battle, the one that ended the raid.
C11_DefeatedByLastBattle ==
    HasResults =>
        /\ Len(raid_results.monsters_defeated_by) <= 1
        /\ Len(raid_results.monsters_defeated_by) = 1 =>
              /\ Len(raid_results.battles) >= 1
              /\ raid_results.monsters_defeated_by[1]
                    = raid_results.battles[Len(raid_results.battles)].monster_id
              /\ ~raid_results.battles[Len(raid_results.battles)].player_won

\* a raid ended by a loss after a win
C11_Witness ==
    /\ pc = "returned"
    /\ Len(raid_results.monsters_defeated_by) = 1
    /\ Len(raid_results.battles) = 2
    /\ raid_results.monsters_defeated_by[1] = raid_results.battles[2].monster_id

\* C12: once the monsters are selected, process_raid always reaches a returned
\* result (a terminal state of the raid), and at no point has it resolved more
\* battles than there are selected monsters.
C12_RaidTerminates ==
    /\ (pc = "loop") ~> (pc = "returned")
    /\ [](HasResults => Len(raid_results.battles) <= Len(monsters))

\* C13: a player whose current_hp is <= 0 when process_raid starts never
\* fights: battles, monsters_defeated and monsters_defeated_by stay empty,
\* rewards and damage_taken are 0, the result has player_survived = false and
\* raid_complete = false, and process_raid leaves current_hp as it was.
C13_NoFightAtZeroHP ==
    (HasResults /\ player0.current_hp <= 0) =>
        /\ raid_results.battles = <<>>
        /\ raid_results.monsters_defeated = <<>>
        /\ raid_results.monsters_defeated_by = <<>>
        /\ raid_results.total_rewards = [gold |-> 0, experience |-> 0]
        /\ raid_results.damage_taken = 0
        /\ player_power = 0 /\ monster_power = 0
        /\ ~raid_results.raid_complete
        /\ pc \in {"loop", "after_loop", "returned"} =>
              player.current_hp = player0.current_hp
        /\ Returned => ~raid_results.player_survived

C13_Witness ==
    /\ pc = "returned"
    /\ player0.current_hp <= 0
    /\ ~raid_results.player_survived
    /\ raid_results.battles = <<>>
    /\ Len(monsters) >= 3

\* C14: player_survived in the result of process_raid is true exactly when the
\* player's current_hp was > 0 when the raid started, also when a lost battle
\* has brought current_hp to 0 or below.
C14_SurvivedIsEntryHP ==
    Returned => (raid_results.player_survived <=> player0.current_hp > 0)

\* a lost battle that brings the HP below 0, with player_survived = true
C14_Witness ==
    /\ pc = "returned"
    /\ player0.current_hp > 0
    /\ player.current_hp <= 0
    /\ Len(raid_results.monsters_defeated_by) = 1
    /\ raid_results.player_survived

\* the monster of the selection with the given id
MonsterOf(id) == CHOOSE m \in Range(monsters) : m.monster_id = id

\* C15: process_raid changes nothing of the player but current_hp: at every
\* point of the raid and in its result the player is the starting player with
\* current_hp lowered by damage_taken (tenths of a hit point), damage_taken is
\* 0 or the damage stat of the one monster in monsters_defeated_by, and the
\* monsters are still the ones built from the catalog.
C15_RaidFrame ==
    (HasResults /\ pc \in {"loop", "after_loop", "returned", "raised"}) =>
        /\ player = [player0 EXCEPT
                        !.current_hp = @ - 10 * raid_results.damage_taken]
        /\ raid_results.damage_taken =
              IF raid_results.monsters_defeated_by = <<>> THEN 0
              ELSE MonsterOf(raid_results.monsters_defeated_by[1]).damage
        /\ \A i \in 1..Len(monsters) :
              \E t \in catalog : monsters[i] = Monster(t, current_rarity(tower_level))

\* a raid with a won battle and a lost one that cost hit points
C15_Witness ==
    /\ pc = "returned"
    /\ Len(raid_results.monsters_defeated) >= 1
    /\ raid_results.damage_taken > 0
    /\ player.current_hp = player0.current_hp - 10 * raid_results.damage_taken
    /\ player.gold = player0.gold

\* C16: at every point of process_raid and in its result the ids of battles
\* are a prefix of the ids of the selected monsters, and monsters_defeated
\* followed by monsters_defeated_by is the sequence of the ids of battles.
C16_BattlesInOrder ==
    HasResults =>
        /\ Len(raid_results.battles) <= Len(monsters)
        /\ Ids(raid_results.battles)
              = SubSeq(Ids(monsters), 1, Len(raid_results.battles))
        /\ raid_results.monsters_defeated \o raid_results.monsters_defeated_by
              = Ids(raid_results.battles)

C16_Witness ==
    /\ pc = "returned"
    /\ Len(raid_results.battles) = 3
    /\ Len(monsters) = 4
    /\ Len(raid_results.monsters_defeated_by) = 1

\* the sum of a reward field over the monsters of a sequence of ids
RECURSIVE SumRewards(_, _)
SumRewards(ids, field) ==
    IF ids = <<>> THEN 0
    ELSE MonsterOf(Head(ids))[field] + SumRewards(Tail(ids), field)

\* C17: at every point of process_raid and in its result total_rewards is the
\* sum of gold_reward and of experience_reward over the monsters of
\* monsters_defeated; a lost battle adds nothing.
C17_RewardsOfDefeated ==
    HasResults =>
        /\ raid_results.total_rewards.gold
              = SumRewards(raid_results.monsters_defeated, "gold_reward")
        /\ raid_results.total_rewards.experience
              = SumRewards(raid_results.monsters_defeated, "experience_reward")

\* two won battles and a lost one
C17_Witness ==
    /\ pc = "returned"
    /\ Len(raid_results.monsters_defeated) = 2
    /\ Len(raid_results.monsters_defeated_by) = 1
    /\ raid_results.total_rewards.gold > 0
    /\ raid_results.total_rewards.gold # raid_results.total_rewards.experience

\* handle_player_death has been applied
DeathHandled == pc = "death_handled" \/ (pc = "done" /\ ~raid_results.player_survived)

\* the indices of the dropped records of a slot
DroppedAt(slot) ==
    {i \in 1..Len(raid_results.dropped_items) : raid_results.dropped_items[i].slot = slot}

\* C18: after handle_player_death every slot is unchanged and not listed, or
\* it was occupied, is now empty and is listed exactly once with the item it
\* held; no empty slot is listed, no slot gains an item and every listed slot
\* is empty.
C18_DropsPerSlot ==
    DeathHandled =>
        LET old == player0.equipment
            new == player.equipment
        IN  /\ DOMAIN new = DOMAIN old
            /\ \A slot \in DOMAIN old :
                  \/ new[slot] = old[slot] /\ DroppedAt(slot) = {}
                  \/ /\ old[slot] # None
                     /\ new[slot] = None
                     /\ Cardinality(DroppedAt(slot)) = 1
                     /\ \A i \in DroppedAt(slot) :
                           raid_results.dropped_items[i].item = old[slot]
            /\ \A i \in 1..Len(raid_results.dropped_items) :
                  /\ raid_results.dropped_items[i].slot \in DOMAIN old
                  /\ old[raid_results.dropped_items[i].slot] # None
                  /\ new[raid_results.dropped_items[i].slot] = None

\* the armor is dropped and the weapon kept
C18_Witness ==
    /\ pc = "death_handled"
    /\ player0.equipment = [weapon |-> Sword, armor |-> Cloak]
    /\ player.equipment = [weapon |-> Sword, armor |-> None]
    /\ raid_results.dropped_items = <<[slot |-> "armor", item |-> Cloak]>>

\* C19: in handle_raid_command the death handler is applied exactly when
\* player_survived is false, after the rewards were added and before the
\* player is saved; the result has dropped_items only then; a surviving
\* player keeps equipment and party and loses no gold.
C19_DeathOnlyWhenNotSurvived ==
    /\ pc \in {"returned", "rewarded"} =>
          "dropped_items" \notin DOMAIN raid_results
    /\ pc \in {"rewarded", "death_handled"} => saved = None
    /\ pc = "death_handled" =>
          /\ ~raid_results.player_survived
          /\ player.experience
                = player0.experience + raid_results.total_rewards.experience
    /\ pc = "done" =>
          LET gold == player0.gold + raid_results.total_rewards.gold
          IN  /\ ("dropped_items" \in DOMAIN raid_results)
                    <=> ~raid_results.player_survived
              /\ saved = [current_hp |-> player.current_hp,
                          gold       |-> player.gold,
                          experience |-> player.experience]
              /\ raid_results.player_survived =>
                    /\ player.equipment = player0.equipment
                    /\ player.current_party_id = player0.current_party_id
                    /\ player.gold = gold
                    /\ player.current_hp
                          = player0.current_hp - 10 * raid_results.damage_taken
              /\ ~raid_results.player_survived =>
                    /\ player.gold = gold - GoldLoss(gold)
                    /\ player.current_hp = player.max_hp
                    /\ player.current_party_id = None

\* a defeated player saved with the penalty, and an item dropped
C19_Witness ==
    /\ pc = "done"
    /\ ~raid_results.player_survived
    /\ Len(raid_results.dropped_items) = 1
    /\ player0.gold = 100
    /\ saved.gold = 80

\* the multipliers as the claim lists them, in tenths
ClaimedMultiplier(rarity) ==
    CASE rarity = "E" -> 10
      [] rarity = "D" -> 13
      [] rarity = "C" -> 16
      [] rarity = "B" -> 20
      [] rarity = "A" -> 25
      [] rarity = "S" -> 30
      [] OTHER -> 10

\* C20: the score of a monster is (level*6 + damage*1.3 + defense) * multiplier
\* * (1 + m/20), here times 2000, with the multiplier 1.0 for an unrecognized
\* rarity; with the draw m fixed, raising level, damage or defense never
\* lowers the score.
C20_MonsterScore ==
    /\ [](pc = "scored" =>
            final_score =
                (score_entity.level * 60 + score_entity.damage * 13
                    + score_entity.defense * 10)
                * ClaimedMultiplier(score_entity.rarity) * (20 + score_mindset))
    /\ [][(pc = "scored" /\ pc' = "scored") => final_score' >= final_score]_vars

\* a monster of an unrecognized rarity scored again after a stat was raised
C20_Witness ==
    /\ pc = "scored"
    /\ score_entity.rarity \notin DOMAIN rarity_multipliers
    /\ score_entity.damage = MaxStat
    /\ score_mindset > 0
    /\ final_score > 0

====
